---- MODULE Spec2Model ----
(***************************************************************************)
(* Model of flowgrind's command line argument parser, src/fg_argparser.c.  *)
(*                                                                         *)
(* A C string is a sequence of one-character strings; s[k] of the C code   *)
(* is CharAt(s, k), which yields NUL at k = strlen(s).  A pointer into     *)
(* argv is the C index of the token it points to, a pointer to an option   *)
(* descriptor is the index of the descriptor in the table (NonOption for   *)
(* the address of ap_init's local non_option).                             *)
(*                                                                         *)
(* ap_init is split at its loop heads: one action per pass of the Driver   *)
(* loop (lines 304-340), one action per pass of the cluster loop of        *)
(* parse_short_option (lines 238-282), one action for the code after the   *)
(* Driver loop (lines 342-355).  parse_long_option is one operator.        *)
(* Allocation always succeeds in Spec.  SpecLife adds the calls a caller    *)
(* makes once ap_init has returned, ap_free and ap_is_used; SpecOOM adds    *)
(* the failure of one allocation during ap_init.  The heap is followed as   *)
(* the set of live blocks, so that a free of a block that is not live (a    *)
(* second free, a free of an unset pointer) shows as a fault.               *)
(***************************************************************************)
EXTENDS Integers, Sequences, FiniteSets, TLC

VARIABLES
    argv,         \* the argument vector, argv[1] is C's argv[0]
    options,      \* the option table without its code == 0 sentinel, or NULL
    in_order,     \* ap_init's in_order flag
    ap,           \* struct _arg_parser: data, data_size, error, error_size
    argind,       \* ap_init: index in argv
    non_options,  \* ap_init: skipped non-options (pointers into argv)
    opt,          \* the token handed to a resolver (pointer into argv), 0 = none
    cind,         \* parse_short_option: character index in opt
    pc,           \* position in ap_init
    ret,          \* ap_init's return value once pc = "done"
    origin,       \* history: for each record of ap.data, the argv index it came from
    cls,          \* history: how the Driver's loop consumed each argv index
    heap,         \* the blocks malloc has handed out: live, freed, and a fault flag
    used,         \* the last call of ap_is_used: its code argument and its result
    fail          \* the allocation that has failed, "none" if none has

vars == <<argv, options, in_order, ap, argind, non_options, opt, cind, pc, ret,
          origin, cls, heap, used, fail>>

----------------------------------------------------------------------------
(* Bounds *)

\* number of tokens after the program name
MaxArgs == 3

----------------------------------------------------------------------------
(* C strings *)

NUL == "NUL"
NULL == <<"NULL">>

CharAt(s, k) == IF k < Len(s) THEN s[k + 1] ELSE NUL

\* the string that starts at &s[k]
From(s, k) == SubSeq(s, k + 1, Len(s))

strlen(s) == Len(s)

MinOf(a, b) == IF a < b THEN a ELSE b

\* strcmp in place of strncmp: the whole name must be the slice
strncmp0_whole(s1, s2, n) == s1 = SubSeq(s2, 1, n)

\* strncmp that fails on a length of 0
strncmp0_nonempty(s1, s2, n) ==
    /\ n > 0
    /\ LET m == MinOf(n, MinOf(Len(s1), Len(s2)) + 1)
       IN  \A k \in 0..(m - 1) : CharAt(s1, k) = CharAt(s2, k)

\* strncmp(s1, s2, n) == 0: the first n characters agree, the comparison
\* ending at the first NUL
strncmp0(s1, s2, n) ==
    LET m == MinOf(n, MinOf(Len(s1), Len(s2)) + 1)
    IN  \A k \in 0..(m - 1) : CharAt(s1, k) = CharAt(s2, k)

----------------------------------------------------------------------------
(* Option descriptors *)

ap_no == "ap_no"
ap_yes == "ap_yes"

\* the address of ap_init's local non_option = {0, 0, ap_no, 0}
NonOption == 0

non_option == [code |-> NUL, name |-> NULL, has_arg |-> ap_no]

Opt(c, n, h) == [code |-> c, name |-> n, has_arg |-> h]

\* a table for short option clusters: -a -b (flags), -c/--cfg (argument)
ClusterOptions ==
    << Opt("a", NULL, ap_no),
       Opt("b", NULL, ap_no),
       Opt("c", <<"c", "f", "g">>, ap_yes) >>

ClusterTokens ==
    { <<"-", "a">>,
      <<"-", "a", "b">>,
      <<"-", "a", "b", "c", "x", "a">>,
      <<"-", "c">>,
      <<"-", "c", "b">>,
      <<"-", "a", "c">>,
      <<"-", "a", "x">>,
      <<"-", "-">>,
      <<"f">>,
      <<>>,
      <<"-">>,
      <<"-", "-", "c", "f", "g">>,
      <<"-", "-", "=", "f">> }

\* a table for long options: foo is an exact name and a prefix of fooa and
\* foob, which precede it; qa and qb are aliases of one option; ra and rb
\* differ in has_arg only; bar has a unique prefix; codes above 255 are
\* written "L1", "L2", ...
LongOptions ==
    << Opt("n", NULL, ap_no),
       Opt("L1", <<"f", "o", "o", "a">>, ap_no),
       Opt("L2", <<"f", "o", "o", "b">>, ap_no),
       Opt("f", <<"f", "o", "o">>, ap_yes),
       Opt("q", <<"q", "a">>, ap_no),
       Opt("q", <<"q", "b">>, ap_no),
       Opt("r", <<"r", "a">>, ap_no),
       Opt("r", <<"r", "b">>, ap_yes),
       Opt("L3", <<"b", "a", "r">>, ap_yes) >>

LongTokens ==
    { <<"-", "-", "f", "o", "o">>,
      <<"-", "-", "f", "o", "o", "=", "v">>,
      <<"-", "-", "f", "o", "o", "=">>,
      <<"-", "-", "f", "o">>,
      <<"-", "-", "f", "o", "o", "b", "=", "v">>,
      <<"-", "-", "q">>,
      <<"-", "-", "q", "=">>,
      <<"-", "-", "r">>,
      <<"-", "-", "b", "a">>,
      <<"-", "-", "b", "=", "v">>,
      <<"-", "-", "z", "z">>,
      <<"-", "-", "=", "v">>,
      <<"-", "-">>,
      <<"v">>,
      <<"-", "n">> }

\* the codes above 255, which no option character can equal
WideCodes == {"L1", "L2", "L3", "L4"}

\* a table of flags: x has a code only, yes both, long a name only
FlagOptions ==
    << Opt("x", NULL, ap_no),
       Opt("y", <<"y", "e", "s">>, ap_no),
       Opt("L4", <<"l", "o", "n", "g">>, ap_no),
       Opt("z", <<"z", "e", "d">>, ap_yes) >>

\* the spellings of descriptor d: -c if the code is a character, --name if
\* it has a name
FormsOf(d) ==
    (IF d.code \notin WideCodes \cup {NUL} THEN { <<"-", d.code>> } ELSE {})
    \cup (IF d.name # NULL THEN { <<"-", "-">> \o d.name } ELSE {})

\* every spelling of every flag of the table
FlagTokens ==
    UNION { FormsOf(FlagOptions[i]) :
              i \in { j \in 1..Len(FlagOptions) : FlagOptions[j].has_arg = ap_no } }

Scenarios ==
    { [options |-> ClusterOptions, tokens |-> ClusterTokens],
      [options |-> LongOptions, tokens |-> LongTokens],
      [options |-> FlagOptions, tokens |-> FlagTokens] }

ProgName == <<"p">>

----------------------------------------------------------------------------
(* The program's reading of its inputs *)

argc == Len(argv)

\* argv[i] of the C code
Argv(i) == argv[i + 1]

\* a descriptor pointer dereferenced
Deref(p) == IF p = NonOption THEN non_option ELSE options[p]

----------------------------------------------------------------------------
(* Error messages, character by character *)

S_option_q == <<"o", "p", "t", "i", "o", "n", " ", "'">>
S_is_ambiguous == <<"'", " ", "i", "s", " ", "a", "m", "b", "i", "g", "u", "o", "u", "s">>
S_unrecognized == <<"u", "n", "r", "e", "c", "o", "g", "n", "i", "z", "e", "d", " ",
                    "o", "p", "t", "i", "o", "n", " ", "'">>
S_q == <<"'">>
S_option_qdd == <<"o", "p", "t", "i", "o", "n", " ", "'", "-", "-">>
S_no_argument == <<"'", " ", "d", "o", "e", "s", "n", "'", "t", " ", "a", "l", "l", "o", "w",
                   " ", "a", "n", " ", "a", "r", "g", "u", "m", "e", "n", "t">>
S_requires == <<"'", " ", "r", "e", "q", "u", "i", "r", "e", "s", " ", "a", "n", " ",
                "a", "r", "g", "u", "m", "e", "n", "t">>
S_invalid == <<"i", "n", "v", "a", "l", "i", "d", " ", "o", "p", "t", "i", "o", "n", " ",
               "-", "-", " ">>
S_short_requires == <<"o", "p", "t", "i", "o", "n", " ", "r", "e", "q", "u", "i", "r", "e", "s",
                      " ", "a", "n", " ", "a", "r", "g", "u", "m", "e", "n", "t", " ",
                      "-", "-", " ">>

----------------------------------------------------------------------------
(* The record store and the error accumulator *)

\* a decoded record: option is a descriptor pointer
Record(option, argument, opt_string) ==
    [option |-> option, argument |-> argument, opt_string |-> opt_string]

\* line 83 lost: every record is rendered in the short form
opt_string_of_short(option, long_opt) ==
    IF Deref(option).code = NUL THEN <<"-">> ELSE <<"-", Deref(option).code>>

\* asprintf(&p->opt_string, "--%s", option->name) and
\* asprintf(&p->opt_string, "-%c", option->code): %c of code 0 writes the
\* byte 0, which ends the string after the dash
opt_string_of(option, long_opt) ==
    IF long_opt
      THEN <<"-", "-">> \o Deref(option).name
      ELSE IF Deref(option).code = NUL THEN <<"-">> ELSE <<"-", Deref(option).code>>

push_back_record(a, option, long_opt, argument) ==
    [a EXCEPT !.data = Append(a.data,
                              Record(option, argument, opt_string_of(option, long_opt))),
              !.data_size = a.data_size + 1]

add_error(a, msg) ==
    [a EXCEPT !.error = (IF a.error = NULL THEN <<>> ELSE a.error) \o msg,
              !.error_size = a.error_size + strlen(msg)]

\* what *strp holds after a failed asprintf, and what p->opt_string holds
\* before asprintf is reached: nothing that malloc handed out
UNINIT == <<"UNINIT">>

\* push_back_record with one allocation failing: the realloc of the table
\* (line 72), the malloc of the argument (line 78) or the one inside asprintf
\* (lines 83-89), whose -1 the test !asprintf(...) takes for success; junk is
\* what asprintf left in p->opt_string.  Yields the new ap and the return value.
push_back_record_oom(a, option, argument, kind, junk) ==
    IF kind = "table" THEN [ap |-> a, ret |-> 0]
    ELSE IF kind = "argument"
      THEN [ap |-> [a EXCEPT !.data = Append(a.data, Record(option, NULL, UNINIT))],
            ret |-> 0]
    ELSE [ap |-> [a EXCEPT !.data = Append(a.data, Record(option, argument, junk)),
                           !.data_size = a.data_size + 1],
          ret |-> 1]

\* a heap block: the record table, the error message, the buffer of skipped
\* non-options, and the two strings of the record at an index of the table
Block(kind, k) == [kind |-> kind, at |-> k]

Malloc(h, b) == [h EXCEPT !.live = h.live \cup {b}]

\* free(p) for every p of ptrs
Free(h, ptrs) ==
    [live |-> h.live \ ptrs,
     freed |-> h.freed \cup (ptrs \cap h.live),
     fault |-> h.fault \/ ~(ptrs \subseteq h.live)]

\* the blocks allocated by the calls of push_back_record and add_error that
\* took ap from a to a2
Allocated(h, a, a2) ==
    LET table == IF a.data = <<>> /\ a2.data # <<>> THEN {Block("data", 0)} ELSE {}
        new == (Len(a.data) + 1)..Len(a2.data)
        arguments == { Block("argument", k) :
                         k \in { j \in new : a2.data[j].argument # NULL } }
        opt_strings == { Block("opt_string", k) :
                           k \in { j \in new : a2.data[j].opt_string \notin {NULL, UNINIT} } }
        message == IF a.error = NULL /\ a2.error # NULL THEN {Block("error", 0)} ELSE {}
    IN  [h EXCEPT !.live = h.live \cup table \cup arguments \cup opt_strings \cup message]

\* the calls of free in free_data, lines 122-128: free(NULL) does nothing, a
\* pointer that was never set is no block
free_data_heap(h, a) ==
    LET counted == 1..a.data_size
        ptrs == { Block("argument", k) :
                    k \in { j \in counted : a.data[j].argument # NULL } }
                \cup { Block("opt_string", k) :
                         k \in { j \in counted : a.data[j].opt_string # NULL } }
                \cup (IF a.data # <<>> THEN {Block("data", 0)} ELSE {})
    IN  Free(h, ptrs)

\* free_data without its effect: the records stay
free_data_keep(a) == a

free_data(a) == [a EXCEPT !.data = <<>>, !.data_size = 0]

----------------------------------------------------------------------------
(* ap_free and the accessors *)

\* lines 361-364 lost: the error pointer is left as it is
ap_free_keep(a) == free_data(a)

ap_free(a) == [free_data(a) EXCEPT !.error = NULL, !.error_size = 0]

\* the calls of free in ap_free
ap_free_heap(h, a) ==
    LET h2 == free_data_heap(h, a)
    IN  IF a.error # NULL THEN Free(h2, {Block("error", 0)}) ELSE h2

\* ap->data[i].option->code read after ap_init has returned: the descriptor of
\* an operand record is ap_init's local non_option, whose storage has ended;
\* stale is what the memory holds by now
CodeOf(p, stale) == IF p = NonOption THEN stale ELSE options[p].code

ap_is_used(a, code, stale) ==
    \E i \in 1..a.data_size : CodeOf(a.data[i].option, stale) = code

ap_arguments(a) == a.data_size

\* i is a C index
ap_opt_string(a, i) ==
    IF i >= 0 /\ i < ap_arguments(a) THEN a.data[i + 1].opt_string ELSE <<>>

----------------------------------------------------------------------------
(* parse_long_option *)

\* for (len = 0; opt[len + 2] && opt[len + 2] != '='; ++len) ;
NameLen(o) ==
    CHOOSE len \in 0..Len(o) :
        /\ CharAt(o, len + 2) \in {NUL, "="}
        /\ \A k \in 0..(len - 1) : CharAt(o, k + 2) \notin {NUL, "="}

\* lines 167-168 without the has_arg comparison
Differs_code(d1, d2) == d1.code # d2.code

\* lines 167-168: a later abbreviation candidate d2 against the first one d1
Differs(d1, d2) == d1.code # d2.code \/ d1.has_arg # d2.has_arg

\* the table scan of lines 155-171 from entry i on; st is (index, exact, ambig),
\* index counted from 1, 0 for the C code's -1
RECURSIVE LongScan(_, _, _, _, _)
LongScan(tab, o, len, i, st) ==
    IF i > Len(tab) THEN st
    ELSE IF tab[i].name # NULL /\ strncmp0(tab[i].name, From(o, 2), len)
      THEN IF strlen(tab[i].name) = len
             THEN [index |-> i, exact |-> TRUE, ambig |-> st.ambig]
           ELSE IF st.index = 0
             THEN LongScan(tab, o, len, i + 1, [st EXCEPT !.index = i])
           ELSE IF Differs(tab[st.index], tab[i])
             THEN LongScan(tab, o, len, i + 1, [st EXCEPT !.ambig = TRUE])
           ELSE LongScan(tab, o, len, i + 1, st)
    ELSE LongScan(tab, o, len, i + 1, st)

LongMatch(tab, o) ==
    LongScan(tab, o, NameLen(o), 1, [index |-> 0, exact |-> FALSE, ambig |-> FALSE])

\* line 173 without the exact test
IsAmbiguous_flag(m) == m.ambig

\* line 173
IsAmbiguous(m) == m.ambig /\ ~m.exact

\* ++*argindp lost: the cursor stays where it is
Advance_none(ind) == ind

\* ++*argindp (lines 188, 214, 260, 266 and 276)
Advance(ind) == ind + 1

\* lines 208 and 270 without the test of the first character
Missing_null(arg) == arg = NULL

\* lines 208 and 270 with a token that starts with a dash refused as well
Missing_dash(arg) == arg = NULL \/ CharAt(arg, 0) \in {NUL, "-"}

\* lines 208 and 270: if (!arg || !arg[0]), no usable following token
Missing(arg) == arg = NULL \/ CharAt(arg, 0) = NUL

\* line 192 with the test lost: every option takes an "=" argument
Refuses_never(has_arg) == FALSE

\* line 192: the option takes no argument
Refuses(has_arg) == has_arg = ap_no

\* o is the token, arg the next token or NULL; yields the new ap, the new
\* argind and the return value
parse_long_option(a, o, arg, tab, ind) ==
    LET len == NameLen(o)
        m == LongMatch(tab, o)
        index == m.index
        Res(a2, ind2) == [ap |-> a2, argind |-> ind2, ret |-> 1]
    IN  IF IsAmbiguous(m)
          THEN Res(add_error(add_error(add_error(a, S_option_q), o), S_is_ambiguous), ind)
        ELSE IF index = 0
          THEN Res(add_error(add_error(add_error(a, S_unrecognized), o), S_q), ind)
        ELSE IF CharAt(o, len + 2) # NUL
          THEN IF Refuses(tab[index].has_arg)
                 THEN Res(add_error(add_error(add_error(a, S_option_qdd),
                                              tab[index].name), S_no_argument), Advance(ind))
               ELSE IF tab[index].has_arg = ap_yes /\ CharAt(o, len + 3) = NUL
                 THEN Res(add_error(add_error(add_error(a, S_option_qdd),
                                              tab[index].name), S_requires), Advance(ind))
               ELSE Res(push_back_record(a, index, TRUE, From(o, len + 3)), Advance(ind))
        ELSE IF tab[index].has_arg = ap_yes
          THEN IF Missing(arg)
                 THEN Res(add_error(add_error(add_error(a, S_option_qdd),
                                              tab[index].name), S_requires), Advance(ind))
               ELSE Res(push_back_record(a, index, TRUE, arg), Advance(Advance(ind)))
        ELSE Res(push_back_record(a, index, TRUE, <<>>), Advance(ind))

----------------------------------------------------------------------------
(* parse_short_option: one pass of its while (cind > 0) loop *)

\* lines 242-250 with index starting at 0 instead of -1: a character that
\* matches no code is taken for the first descriptor
ShortLookup_first(tab, code) ==
    IF code # NUL /\ \E i \in 1..Len(tab) : tab[i].code = code
      THEN CHOOSE i \in 1..Len(tab) :
               /\ tab[i].code = code
               /\ \A j \in 1..(i - 1) : tab[j].code # code
      ELSE 1

\* lines 245-250: the first descriptor whose code is the character, 0 for -1
ShortLookup(tab, code) ==
    IF code # NUL /\ \E i \in 1..Len(tab) : tab[i].code = code
      THEN CHOOSE i \in 1..Len(tab) :
               /\ tab[i].code = code
               /\ \A j \in 1..(i - 1) : tab[j].code # code
      ELSE 0

\* line 264 lost: the rest of the cluster is never taken as the argument
Attached_never(has_arg, o, ci) == FALSE

\* line 264: the rest of the cluster is the option's argument
Attached(has_arg, o, ci) == has_arg # ap_no /\ ci > 0 /\ CharAt(o, ci) # NUL

\* line 259 with the test lost: the cluster never ends
ClusterEnd_never(o, ci) == FALSE

\* line 259: if (opt[++cind] == 0), ci being cind before the increment
ClusterEnd(o, ci) == CharAt(o, ci + 1) = NUL

\* yields the new ap, argind and cind, and whether the function returned
\* (done) with which value (ret)
ShortPass(a, o, arg, tab, ind, ci) ==
    LET code == CharAt(o, ci)
        code_str == IF code = NUL THEN <<>> ELSE <<code>>
        index == ShortLookup(tab, code)
        \* lines 259-262
        fin == ClusterEnd(o, ci)
        ci1 == IF fin THEN 0 ELSE ci + 1
        ind1 == IF fin THEN Advance(ind) ELSE ind
        Res(a2, ind2, ci2, d) ==
            [ap |-> a2, argind |-> ind2, cind |-> ci2, done |-> d, ret |-> 1]
    IN  IF index = 0
          THEN Res(add_error(add_error(a, S_invalid), code_str), ind, ci, TRUE)
        ELSE IF Attached(tab[index].has_arg, o, ci1)
          THEN Res(push_back_record(a, index, FALSE, From(o, ci1)), Advance(ind1), 0, TRUE)
        ELSE IF tab[index].has_arg = ap_yes
          THEN IF Missing(arg)
                 THEN Res(add_error(add_error(a, S_short_requires), code_str),
                          ind1, ci1, TRUE)
               ELSE Res(push_back_record(a, index, FALSE, arg), Advance(ind1), 0, TRUE)
        ELSE Res(push_back_record(a, index, FALSE, <<>>), ind1, ci1, ci1 = 0)

----------------------------------------------------------------------------
(* ap_init *)

\* the argument vectors of a scenario: the program name and up to MaxArgs tokens
RECURSIVE Vectors(_, _)
Vectors(toks, n) ==
    IF n = 0 THEN { <<ProgName>> }
    ELSE LET shorter == Vectors(toks, n - 1)
         IN  shorter \cup { Append(v, t) : v \in { w \in shorter : Len(w) = n }, t \in toks }

\* ap_init's entry, lines 291-300: the locals and the four fields of ap are set
Init ==
    /\ \E sc \in Scenarios :
          /\ argv \in Vectors(sc.tokens, MaxArgs)
          /\ options \in {sc.options, NULL}
    /\ in_order \in {0, 1}
    /\ ap = [data |-> <<>>, data_size |-> 0, error |-> NULL, error_size |-> 0]
    /\ argind = 1
    /\ non_options = <<>>
    /\ opt = 0
    /\ cind = 0
    /\ pc = "entry"
    /\ ret = -1
    /\ origin = <<>>
    /\ cls = [i \in 1..(Len(argv) - 1) |-> "none"]
    /\ heap = [live |-> {}, freed |-> {}, fault |-> FALSE]
    /\ used = [asked |-> FALSE, code |-> NUL, ret |-> FALSE]
    /\ fail = "none"

\* lines 305-308: the Driver's test of the token at argind
ch1 == CharAt(Argv(argind), 0)
ch2 == IF ch1 # NUL THEN CharAt(Argv(argind), 1) ELSE NUL
IsOptionToken == ch1 = "-" /\ ch2 # NUL

\* line 313 with the test lost: "--" is handed to parse_long_option
IsTerminator_never(t) == FALSE

\* line 313: nothing follows the two dashes
IsTerminator(t) == CharAt(t, 2) = NUL

\* line 310-311: the token after opt, or NULL
ArgOf(o) == IF o + 1 < argc THEN Argv(o + 1) ELSE NULL

\* the history of a step that took ap from a to a2 and argind to ind2 while
\* working on token tok: new records come from tok, a token skipped over as
\* an option's value is marked
OriginAfter(a, a2, tok) ==
    IF Len(a2.data) > Len(a.data)
      THEN origin \o [k \in 1..(Len(a2.data) - Len(a.data)) |-> tok]
      ELSE origin

ClsAfter(tok, ind2) ==
    [i \in DOMAIN cls |->
        IF i = tok THEN "option"
        ELSE IF i = tok + 1 /\ ind2 = tok + 2 THEN "value"
        ELSE cls[i]]

\* lines 326-327 without the break: the Driver goes on scanning
AfterResolver_nobreak(a) == "scan"

\* lines 326-327: after a resolver has returned, if (ap->error) break
AfterResolver(a) == IF a.error # NULL THEN "finish" ELSE "scan"

\* line 329 with the test lost either way
Deferred_never(io) == FALSE
Deferred_always(io) == TRUE

\* line 329: if (!in_order)
Deferred(io) == io = 0

\* lines 301-302
Entry ==
    /\ pc = "entry"
    /\ IF argc < 2 \/ options = NULL
         THEN pc' = "done" /\ ret' = 1
         ELSE pc' = "scan" /\ ret' = ret
    /\ UNCHANGED <<argv, options, in_order, ap, argind, non_options, opt, cind,
                   origin, cls, heap, used, fail>>

\* line 304, the loop condition fails
ScanEnd ==
    /\ pc = "scan"
    /\ ~(argind < argc)
    /\ pc' = "finish"
    /\ UNCHANGED <<argv, options, in_order, ap, argind, non_options, opt, cind, ret,
                   origin, cls, heap, used, fail>>

\* lines 312-315: the token is "--"
ScanTerminator ==
    /\ pc = "scan"
    /\ argind < argc
    /\ IsOptionToken /\ ch2 = "-" /\ IsTerminator(Argv(argind))
    /\ opt' = argind
    /\ argind' = argind + 1
    /\ pc' = "finish"
    /\ cls' = [cls EXCEPT ![argind] = "terminator"]
    /\ UNCHANGED <<argv, options, in_order, ap, non_options, cind, ret, origin,
                   heap, used, fail>>

\* lines 316-320 and 326-327: a long option
ScanLong ==
    /\ pc = "scan"
    /\ argind < argc
    /\ IsOptionToken /\ ch2 = "-" /\ ~IsTerminator(Argv(argind))
    /\ LET r == parse_long_option(ap, Argv(argind), ArgOf(argind), options, argind)
       IN  /\ opt' = argind
           /\ ap' = r.ap
           /\ argind' = r.argind
           /\ pc' = AfterResolver(r.ap)
           /\ origin' = OriginAfter(ap, r.ap, argind)
           /\ cls' = ClsAfter(argind, r.argind)
           /\ heap' = Allocated(heap, ap, r.ap)
    /\ UNCHANGED <<argv, options, in_order, non_options, cind, ret, used, fail>>

\* lines 321-323 and 236: parse_short_option is entered
ScanShort ==
    /\ pc = "scan"
    /\ argind < argc
    /\ IsOptionToken /\ ch2 # "-"
    /\ opt' = argind
    /\ cind' = 1
    /\ pc' = "short"
    /\ cls' = ClsAfter(argind, argind)
    /\ UNCHANGED <<argv, options, in_order, ap, argind, non_options, ret, origin,
                   heap, used, fail>>

\* lines 238-282, one pass; on return lines 326-327
ShortStep ==
    /\ pc = "short"
    /\ LET r == ShortPass(ap, Argv(opt), ArgOf(opt), options, argind, cind)
       IN  /\ ap' = r.ap
           /\ argind' = r.argind
           /\ cind' = r.cind
           /\ pc' = IF ~r.done THEN "short"
                    ELSE AfterResolver(r.ap)
           /\ origin' = OriginAfter(ap, r.ap, opt)
           /\ cls' = ClsAfter(opt, r.argind)
           /\ heap' = Allocated(heap, ap, r.ap)
    /\ UNCHANGED <<argv, options, in_order, non_options, opt, ret, used, fail>>

\* lines 328-339: an operand
ScanOperand ==
    /\ pc = "scan"
    /\ argind < argc
    /\ ~IsOptionToken
    /\ IF Deferred(in_order)
         THEN /\ non_options' = Append(non_options, argind)
              /\ heap' = Malloc(heap, Block("non_options", 0))
              /\ UNCHANGED <<ap, origin>>
         ELSE /\ ap' = push_back_record(ap, NonOption, FALSE, Argv(argind))
              /\ origin' = Append(origin, argind)
              /\ heap' = Allocated(heap, ap, ap')
              /\ UNCHANGED non_options
    /\ argind' = argind + 1
    /\ opt' = 0
    /\ cls' = [cls EXCEPT ![argind] = "operand"]
    /\ UNCHANGED <<argv, options, in_order, cind, pc, ret, used, fail>>

\* lines 345-350 with the loops left after their first pass
PushAll_first(a, s) ==
    IF s = <<>> THEN a
    ELSE push_back_record(a, NonOption, FALSE, Argv(Head(s)))

\* records for the argv indices of seq s, in order (lines 345-350)
RECURSIVE PushAll(_, _)
PushAll(a, s) ==
    IF s = <<>> THEN a
    ELSE PushAll(push_back_record(a, NonOption, FALSE, Argv(Head(s))), Tail(s))

\* lines 353-354: if (non_options) free(non_options)
free_non_options(h) ==
    IF non_options # <<>> THEN Free(h, {Block("non_options", 0)}) ELSE h

\* lines 342-355
Finish ==
    /\ pc = "finish"
    /\ IF ap.error # NULL
         THEN /\ ap' = free_data(ap)
              /\ origin' = <<>>
              /\ heap' = free_non_options(free_data_heap(heap, ap))
              /\ UNCHANGED argind
         ELSE LET rest == [k \in 1..(argc - argind) |-> argind + k - 1]
              IN  /\ ap' = PushAll(PushAll(ap, non_options), rest)
                  /\ origin' = origin \o non_options \o rest
                  /\ heap' = free_non_options(Allocated(heap, ap, ap'))
                  /\ argind' = IF argind < argc THEN argc ELSE argind
    /\ pc' = "done"
    /\ ret' = 1
    /\ UNCHANGED <<argv, options, in_order, non_options, opt, cind, cls, used, fail>>

Next ==
    \/ Entry
    \/ ScanEnd
    \/ ScanTerminator
    \/ ScanLong
    \/ ScanShort
    \/ ShortStep
    \/ ScanOperand
    \/ Finish

Spec == Init /\ [][Next]_vars

----------------------------------------------------------------------------
(* The caller's calls once ap_init has returned *)

\* the codes a caller asks ap_is_used about
QueryCodes == {"a", "n"}

\* what the memory that held non_option.code may hold once ap_init's frame is
\* gone: the 0 it was set to, or what a later call has written there
StaleCodes == {NUL} \cup QueryCodes

Returned == pc \in {"done", "released"}

\* ap_free, lines 358-366
ApFree ==
    /\ Returned
    /\ ap' = ap_free(ap)
    /\ heap' = ap_free_heap(heap, ap)
    /\ pc' = "released"
    /\ UNCHANGED <<argv, options, in_order, argind, non_options, opt, cind, ret,
                   origin, cls, used, fail>>

\* ap_is_used, lines 411-422
ApIsUsed ==
    /\ Returned
    /\ \E code \in QueryCodes, stale \in StaleCodes :
          used' = [asked |-> TRUE, code |-> code, ret |-> ap_is_used(ap, code, stale)]
    /\ UNCHANGED <<argv, options, in_order, ap, argind, non_options, opt, cind, pc,
                   ret, origin, cls, heap, fail>>

NextLife ==
    \/ Next
    \/ ApFree
    \/ ApIsUsed

SpecLife == Init /\ [][NextLife]_vars

----------------------------------------------------------------------------
(* ap_init with one allocation failing *)

\* the allocations of push_back_record that can fail
OOMKinds == {"table", "argument", "asprintf"}

\* what a failed asprintf leaves in p->opt_string: a null pointer or anything
Junk == {NULL, UNINIT}

\* lines 316-320 with the push_back_record of parse_long_option (lines 204,
\* 215, 218) failing; the cursor has been advanced before the call
LongOOM ==
    /\ pc = "scan"
    /\ fail = "none"
    /\ argind < argc
    /\ IsOptionToken /\ ch2 = "-" /\ ~IsTerminator(Argv(argind))
    /\ LET r == parse_long_option(ap, Argv(argind), ArgOf(argind), options, argind)
       IN  /\ Len(r.ap.data) > Len(ap.data)
           /\ \E kind \in OOMKinds, junk \in Junk :
                 LET rec == r.ap.data[Len(r.ap.data)]
                     res == push_back_record_oom(ap, rec.option, rec.argument, kind, junk)
                 IN  /\ fail' = kind
                     /\ ap' = res.ap
                     /\ argind' = r.argind
                     /\ opt' = argind
                     /\ IF res.ret = 0
                          THEN pc' = "done" /\ ret' = 0
                          ELSE pc' = AfterResolver(res.ap) /\ ret' = ret
                     /\ origin' = OriginAfter(ap, res.ap, argind)
                     /\ cls' = ClsAfter(argind, r.argind)
                     /\ heap' = Allocated(heap, ap, res.ap)
    /\ UNCHANGED <<argv, options, in_order, non_options, cind, used>>

\* one pass of parse_short_option with its push_back_record (lines 265, 278,
\* 280) failing; the attached argument is stored before the cursor is advanced
ShortOOM ==
    /\ pc = "short"
    /\ fail = "none"
    /\ LET o == Argv(opt)
           r == ShortPass(ap, o, ArgOf(opt), options, argind, cind)
           index == ShortLookup(options, CharAt(o, cind))
           fin == ClusterEnd(o, cind)
           ci1 == IF fin THEN 0 ELSE cind + 1
           ind1 == IF fin THEN Advance(argind) ELSE argind
       IN  /\ Len(r.ap.data) > Len(ap.data)
           /\ \E kind \in OOMKinds, junk \in Junk :
                 LET rec == r.ap.data[Len(r.ap.data)]
                     res == push_back_record_oom(ap, rec.option, rec.argument, kind, junk)
                     ind2 == IF res.ret = 0 /\ Attached(options[index].has_arg, o, ci1)
                               THEN ind1 ELSE r.argind
                 IN  /\ fail' = kind
                     /\ ap' = res.ap
                     /\ argind' = ind2
                     /\ cind' = r.cind
                     /\ IF res.ret = 0
                          THEN pc' = "done" /\ ret' = 0
                          ELSE /\ pc' = IF ~r.done THEN "short" ELSE AfterResolver(res.ap)
                               /\ ret' = ret
                     /\ origin' = OriginAfter(ap, res.ap, opt)
                     /\ cls' = ClsAfter(opt, ind2)
                     /\ heap' = Allocated(heap, ap, res.ap)
    /\ UNCHANGED <<argv, options, in_order, non_options, opt, used>>

\* lines 328-339 with the growth of non_options (line 330) or the
\* push_back_record of line 337 failing
OperandOOM ==
    /\ pc = "scan"
    /\ fail = "none"
    /\ argind < argc
    /\ ~IsOptionToken
    /\ IF Deferred(in_order)
         THEN /\ fail' = "non_options"
              /\ pc' = "done"
              /\ ret' = 0
              /\ UNCHANGED <<ap, argind, opt, origin, cls, heap>>
         ELSE \E kind \in OOMKinds, junk \in Junk :
                 LET res == push_back_record_oom(ap, NonOption, Argv(argind), kind, junk)
                 IN  /\ fail' = kind
                     /\ ap' = res.ap
                     /\ argind' = argind + 1
                     /\ opt' = 0
                     /\ IF res.ret = 0
                          THEN pc' = "done" /\ ret' = 0
                          ELSE pc' = pc /\ ret' = ret
                     /\ origin' = OriginAfter(ap, res.ap, argind)
                     /\ cls' = [cls EXCEPT ![argind] = "operand"]
                     /\ heap' = Allocated(heap, ap, res.ap)
    /\ UNCHANGED <<argv, options, in_order, non_options, cind, used>>

\* lines 344-355 with the j-th push_back_record of the two loops failing: on
\* return 0 the buffer of skipped non-options is not freed
FinishOOM ==
    /\ pc = "finish"
    /\ fail = "none"
    /\ ap.error = NULL
    /\ LET rest == [k \in 1..(argc - argind) |-> argind + k - 1]
           todo == non_options \o rest
       IN  \E j \in 1..Len(todo), kind \in OOMKinds, junk \in Junk :
             LET before == PushAll(ap, SubSeq(todo, 1, j - 1))
                 res == push_back_record_oom(before, NonOption, Argv(todo[j]), kind, junk)
                 after == IF res.ret = 0 THEN res.ap
                          ELSE PushAll(res.ap, SubSeq(todo, j + 1, Len(todo)))
                 taken == IF res.ret = 0 THEN j ELSE Len(todo)
             IN  /\ fail' = kind
                 /\ ap' = after
                 /\ argind' = IF taken > Len(non_options)
                                THEN argind + (taken - Len(non_options)) ELSE argind
                 /\ origin' = origin \o SubSeq(todo, 1, Len(after.data) - Len(ap.data))
                 /\ heap' = IF res.ret = 0 THEN Allocated(heap, ap, after)
                            ELSE free_non_options(Allocated(heap, ap, after))
                 /\ ret' = res.ret
    /\ pc' = "done"
    /\ UNCHANGED <<argv, options, in_order, non_options, opt, cind, cls, used>>

NextOOM ==
    \/ Next
    \/ LongOOM
    \/ ShortOOM
    \/ OperandOOM
    \/ FinishOOM
    \/ ApFree

SpecOOM == Init /\ [][NextOOM]_vars

----------------------------------------------------------------------------
(* Vocabulary of the properties *)

Done == pc = "done"
NoError == ap.error = NULL

\* the argv indices of the tokens after the program name
TokenIdx == 1..(argc - 1)

\* the name slice of a long-option token: what follows "--" up to the first "="
SliceOf(t) ==
    LET body == SubSeq(t, 3, Len(t))
        eqs == { k \in 1..Len(body) : body[k] = "=" }
    IN  IF eqs = {} THEN body
        ELSE SubSeq(body, 1, (CHOOSE k \in eqs : \A j \in eqs : k <= j) - 1)

IsPrefix(s, t) == Len(s) <= Len(t) /\ \A k \in 1..Len(s) : s[k] = t[k]

IsLongToken(t) == Len(t) >= 3 /\ t[1] = "-" /\ t[2] = "-"
IsClusterToken(t) == Len(t) >= 2 /\ t[1] = "-" /\ t[2] # "-"

\* the table entries that have a name
Named == { i \in 1..Len(options) : options[i].name # NULL }

\* the entries whose name is the slice of t, and those it is a prefix of
ExactEntries(t) == { i \in Named : options[i].name = SliceOf(t) }
PrefixEntries(t) == { i \in Named : IsPrefix(SliceOf(t), options[i].name) }

\* the diagnostics, by kind
AmbiguousOption(t) == S_option_q \o t \o S_is_ambiguous
UnrecognizedOption(t) == S_unrecognized \o t \o S_q
UnexpectedArgument(n) == S_option_qdd \o n \o S_no_argument
MissingArgumentLong(n) == S_option_qdd \o n \o S_requires
InvalidShortOption(c) == S_invalid \o <<c>>
MissingArgumentShort(c) == S_short_requires \o <<c>>

\* every message that is one diagnostic about token t
DiagnosticsOf(t) ==
    {AmbiguousOption(t), UnrecognizedOption(t)}
    \cup { UnexpectedArgument(options[i].name) : i \in Named }
    \cup { MissingArgumentLong(options[i].name) : i \in Named }
    \cup { InvalidShortOption(t[k]) : k \in 2..Len(t) }
    \cup { MissingArgumentShort(t[k]) : k \in 2..Len(t) }

\* a resolver has just returned from the token at opt
Resolved == pc \in {"scan", "finish"} /\ opt # 0
ResolvedLong == Resolved /\ IsLongToken(Argv(opt))
ResolvedCluster == Resolved /\ IsClusterToken(Argv(opt))

\* the records that came from argv index i, in store order
RecordsOf(i) ==
    LET at == { k \in 1..Len(origin) : origin[k] = i }
        RECURSIVE Pick(_)
        Pick(k) == IF k > Len(origin) THEN <<>>
                   ELSE IF k \in at THEN <<ap.data[k]>> \o Pick(k + 1)
                   ELSE Pick(k + 1)
    IN  Pick(1)

IsOperandRecord(r) == r.option = NonOption

\* the token at i reads as an option: a dash and at least one more character
LooksLikeOption(i) == Len(Argv(i)) >= 2 /\ Argv(i)[1] = "-"

\* i lies after the "--" that ended the scan
AfterTerminator(i) == \E t \in TokenIdx : cls[t] = "terminator" /\ t < i

\* the tokens that are operands: scanned as one, or after the terminator
OperandIdx == { i \in TokenIdx : cls[i] = "operand" \/ AfterTerminator(i) }

\* the token at i was dispatched to a resolver, which has returned
OptionDone(i) == cls[i] = "option" /\ ~(pc = "short" /\ opt = i)

\* the members of a set of numbers in increasing order
RECURSIVE Sorted(_)
Sorted(S) ==
    IF S = {} THEN <<>>
    ELSE LET m == CHOOSE x \in S : \A y \in S : x <= y
         IN  <<m>> \o Sorted(S \ {m})

\* the number of option records in the store
NumOptionRecords == Cardinality({ j \in 1..Len(ap.data) : ~IsOperandRecord(ap.data[j]) })

----------------------------------------------------------------------------
(* C1: when ap_init has returned, either no error is set, or the error is    *)
(* exactly one diagnostic and the record store is empty: every record        *)
(* appended before the failure has been discarded.                           *)

C1_TerminalState ==
    Done =>
        /\ ret = 1
        /\ ap.data_size = Len(ap.data)
        /\ \/ NoError
           \/ /\ opt # 0
              /\ ap.error \in DiagnosticsOf(Argv(opt))
              /\ ap.error_size = Len(ap.error)
              /\ ap.data_size = 0
              /\ ap.data = <<>>

\* a failed parse that had stored an in-place operand record and the record
\* of the first character of the failing cluster -ax
C1_Witness ==
    /\ Done
    /\ ~NoError
    /\ in_order = 1
    /\ opt = 2
    /\ cls[1] = "operand"
    /\ Argv(opt) = <<"-", "a", "x">>
    /\ ap.data_size = 0

----------------------------------------------------------------------------
(* C2: the first error wins and halts the parse.  Whenever the error is set  *)
(* it is one diagnostic about the token at opt, every earlier token has been *)
(* consumed successfully and no later token has been looked at; from then on *)
(* the only step is the one that ends the parse: it examines no token, adds  *)
(* no record and leaves the message as it is.                                *)

C2_ErrorState ==
    ~NoError =>
        /\ pc \in {"finish", "done"}
        /\ opt # 0
        /\ ap.error \in DiagnosticsOf(Argv(opt))
        /\ \A i \in TokenIdx :
              /\ i < opt => cls[i] \in {"option", "operand", "value"}
              /\ i > opt => cls[i] = "none"
        /\ pc = "finish" =>
              \A i \in TokenIdx : i < opt /\ cls[i] = "option" => RecordsOf(i) # <<>>

C2_ErrorStep ==
    ~NoError =>
        /\ pc' = "done"
        /\ ap'.error = ap.error
        /\ ap'.error_size = ap.error_size
        /\ argind' = argind
        /\ opt' = opt
        /\ cls' = cls
        /\ Len(ap'.data) <= Len(ap.data)

C2_FirstErrorWins == [](C2_ErrorState) /\ [][C2_ErrorStep]_vars

\* the parse has stopped at the ambiguous --fo although the next token,
\* --zz, would fail as well
C2_Witness ==
    /\ Done
    /\ argc = 4
    /\ opt = 1
    /\ Argv(1) = <<"-", "-", "f", "o">>
    /\ Argv(2) = <<"-", "-", "z", "z">>
    /\ ap.error = AmbiguousOption(Argv(1))
    /\ cls[2] = "none"

----------------------------------------------------------------------------
(* C3: with reordering (in_order = 0) a successful parse ends with all       *)
(* option records first, in the order their tokens were met, followed by one *)
(* operand record per operand token in original order: the operands scanned  *)
(* before a "--", then every token after it.  A token that reads as an       *)
(* option and is met by the scan is resolved as one even after an operand.   *)

C3_Reordered ==
    (Done /\ NoError /\ in_order = 0 /\ options # NULL) =>
        LET n == Len(ap.data)
            k == NumOptionRecords
        IN  /\ Len(origin) = n
            /\ \A j \in 1..k :
                  /\ ~IsOperandRecord(ap.data[j])
                  /\ cls[origin[j]] = "option"
            /\ \A j \in 1..(k - 1) : origin[j] <= origin[j + 1]
            /\ \A i \in TokenIdx : cls[i] = "option" => RecordsOf(i) # <<>>
            /\ SubSeq(origin, k + 1, n) = Sorted(OperandIdx)
            /\ \A j \in (k + 1)..n :
                  /\ IsOperandRecord(ap.data[j])
                  /\ ap.data[j].argument = Argv(origin[j])
            /\ \A i \in TokenIdx :
                  /\ cls[i] = "operand" => ~LooksLikeOption(i)
                  /\ cls[i] = "option" => LooksLikeOption(i)

\* f -a f: the records are -a, f, f
C3_Witness ==
    /\ Done /\ NoError /\ in_order = 0
    /\ argv = <<ProgName, <<"f">>, <<"-", "a">>, <<"f">> >>
    /\ origin = <<2, 1, 3>>
    /\ ap.data[1].option = 1
    /\ ap.data[2].argument = <<"f">>

----------------------------------------------------------------------------
(* C4: without reordering (in_order # 0), as long as no error is set, the    *)
(* store lists the records in the left-to-right order of the tokens they     *)
(* came from: an operand has its record, with the token text, from the       *)
(* moment it is scanned, and options after an operand are still resolved.    *)

C4_InPlace ==
    (NoError /\ in_order # 0 /\ options # NULL) =>
        /\ Len(origin) = Len(ap.data)
        /\ \A j \in 1..(Len(origin) - 1) : origin[j] <= origin[j + 1]
        /\ \A i \in TokenIdx :
              /\ (cls[i] = "operand" \/ (Done /\ AfterTerminator(i))) =>
                    /\ Len(RecordsOf(i)) = 1
                    /\ IsOperandRecord(RecordsOf(i)[1])
                    /\ RecordsOf(i)[1].argument = Argv(i)
              /\ OptionDone(i) =>
                    /\ RecordsOf(i) # <<>>
                    /\ \A j \in 1..Len(RecordsOf(i)) : ~IsOperandRecord(RecordsOf(i)[j])
              /\ cls[i] \in {"value", "terminator", "none"} /\ ~(Done /\ AfterTerminator(i)) =>
                    RecordsOf(i) = <<>>
              /\ cls[i] = "operand" => ~LooksLikeOption(i)
              /\ cls[i] = "option" => LooksLikeOption(i)

\* f -a f: the records are f, -a, f
C4_Witness ==
    /\ Done /\ NoError /\ in_order = 1
    /\ argv = <<ProgName, <<"f">>, <<"-", "a">>, <<"f">> >>
    /\ origin = <<1, 2, 3>>
    /\ ap.data[1].argument = <<"f">>
    /\ ap.data[2].option = 1
    /\ ap.data[3].argument = <<"f">>

----------------------------------------------------------------------------
(* C5 as stated, read in its favour (the first "--" of argv, a parse that    *)
(* ends without error): that token has no record and every token after it    *)
(* has exactly one record, an operand record with the token text, whatever   *)
(* precedes the "--".                                                        *)

C5_AnyDashDash ==
    (Done /\ NoError /\ options # NULL) =>
        \A t \in TokenIdx :
            (Argv(t) = <<"-", "-">> /\ \A u \in 1..(t - 1) : Argv(u) # <<"-", "-">>) =>
                /\ RecordsOf(t) = <<>>
                /\ \A i \in TokenIdx :
                      i > t => /\ Len(RecordsOf(i)) = 1
                               /\ IsOperandRecord(RecordsOf(i)[1])
                               /\ RecordsOf(i)[1].argument = Argv(i)

(* C5 amended: a token "--" that the Driver's scan reaches (one that is not  *)
(* taken as the value of the option before it, the first such) ends the      *)
(* scan: it gets no record, no token after it is looked at by the scan, no   *)
(* error is set, and at the end of the parse the tokens after it are the     *)
(* last records of the store, one operand record each with the token text,   *)
(* in original order; in both reorder modes.  A "--" is never treated as an  *)
(* option or an operand by the scan.                                         *)

C5_Terminator ==
    \A t \in TokenIdx :
        /\ Argv(t) = <<"-", "-">> => cls[t] \in {"none", "value", "terminator"}
        /\ cls[t] = "terminator" =>
              /\ Argv(t) = <<"-", "-">>
              /\ NoError
              /\ pc \in {"finish", "done"}
              /\ RecordsOf(t) = <<>>
              /\ \A i \in TokenIdx : i > t => cls[i] = "none"
              /\ Done =>
                    LET n == Len(ap.data)
                        m == argc - 1 - t
                    IN  /\ Len(origin) = n
                        /\ n >= m
                        /\ \A k \in 1..m :
                              /\ origin[n - m + k] = t + k
                              /\ IsOperandRecord(ap.data[n - m + k])
                              /\ ap.data[n - m + k].argument = Argv(t + k)
                        /\ \A k \in 1..(n - m) : origin[k] < t

\* f -- -a: the -a after the terminator is an operand record
C5_Witness ==
    /\ Done
    /\ argv = <<ProgName, <<"f">>, <<"-", "-">>, <<"-", "a">> >>
    /\ cls[2] = "terminator"
    /\ Len(ap.data) = 2
    /\ ap.data[2].option = NonOption
    /\ ap.data[2].argument = <<"-", "a">>

----------------------------------------------------------------------------
(* Vocabulary of the long-option properties *)

\* the token a resolver has just returned from, and its only record
Tok == Argv(opt)
OnlyRecord == RecordsOf(opt)[1]

\* the abbreviation candidates of t agree in code and has_arg
Aliases(t) ==
    \A i \in PrefixEntries(t) : \A j \in PrefixEntries(t) :
        /\ options[i].code = options[j].code
        /\ options[i].has_arg = options[j].has_arg

FirstOf(S) == CHOOSE i \in S : \A j \in S : i <= j

\* t has an "=", and what follows it
HasValue(t) == \E k \in 3..Len(t) : t[k] = "="
ValueOf(t) == SubSeq(t, Len(SliceOf(t)) + 4, Len(t))

\* the argument the option d gets when written as token t at argv index i
LongArgument(d, t, i) ==
    IF HasValue(t) THEN ValueOf(t)
    ELSE IF d.has_arg = ap_yes THEN Argv(i + 1)
    ELSE <<>>

----------------------------------------------------------------------------
(* C6: when the name slice of a long-option token equals the name of a table *)
(* entry, the resolver selects an entry of that name, wherever it stands in  *)
(* the table and whatever abbreviation candidates were scanned before it:    *)
(* the token fails neither as ambiguous nor as unrecognized.                 *)

C6_ExactWins ==
    (ResolvedLong /\ ExactEntries(Tok) # {}) =>
        /\ ap.error # AmbiguousOption(Tok)
        /\ ap.error # UnrecognizedOption(Tok)
        /\ NoError =>
              /\ Len(RecordsOf(opt)) = 1
              /\ OnlyRecord.option \in ExactEntries(Tok)
        /\ ~NoError =>
              \E i \in ExactEntries(Tok) :
                  ap.error \in {UnexpectedArgument(options[i].name),
                                MissingArgumentLong(options[i].name)}

\* --foo=v resolves to foo, the fourth entry, although fooa and foob, scanned
\* before it, have raised the ambiguity flag
C6_Witness ==
    /\ ResolvedLong
    /\ Tok = <<"-", "-", "f", "o", "o", "=", "v">>
    /\ LongMatch(options, Tok).ambig
    /\ NoError
    /\ OnlyRecord.option = 4
    /\ OnlyRecord.argument = <<"v">>

----------------------------------------------------------------------------
(* C7: a long-option token fails as ambiguous if and only if no entry's name *)
(* equals its name slice and two entries that have the slice as a prefix of  *)
(* their name differ in code or in has_arg.                                  *)

C7_Ambiguous ==
    ResolvedLong =>
        (ap.error = AmbiguousOption(Tok)
            <=> (ExactEntries(Tok) = {} /\ ~Aliases(Tok)))

\* --q (aliases qa, qb of one option) has resolved to qa; --r (ra and rb
\* differ in has_arg only) is ambiguous
C7_Witness ==
    /\ ResolvedLong
    /\ opt = 2
    /\ Argv(1) = <<"-", "-", "q">>
    /\ Tok = <<"-", "-", "r">>
    /\ ap.error = AmbiguousOption(Tok)
    /\ Len(ap.data) = 1
    /\ ap.data[1].option = 5

----------------------------------------------------------------------------
(* C8: a long option whose name slice equals no name and is a prefix of the  *)
(* names of entries that all have one code and has_arg resolves to the first *)
(* of them in table order; the step has the outcome (records, error, cursor) *)
(* that the token with the full name written out would have had.             *)

Abbreviated(t) ==
    /\ IsLongToken(t)
    /\ ExactEntries(t) = {}
    /\ PrefixEntries(t) # {}
    /\ Aliases(t)

\* t with the name of its first candidate in place of the slice
FullForm(t) ==
    <<"-", "-">> \o options[FirstOf(PrefixEntries(t))].name
                 \o SubSeq(t, Len(SliceOf(t)) + 3, Len(t))

C8_Resolved ==
    (ResolvedLong /\ Abbreviated(Tok)) =>
        LET first == FirstOf(PrefixEntries(Tok))
        IN  /\ ap.error # AmbiguousOption(Tok)
            /\ ap.error # UnrecognizedOption(Tok)
            /\ NoError =>
                  /\ Len(RecordsOf(opt)) = 1
                  /\ OnlyRecord.option = first
                  /\ OnlyRecord.argument = LongArgument(options[first], Tok, opt)
                  /\ OnlyRecord.opt_string = <<"-", "-">> \o options[first].name

C8_AsFullName ==
    (pc = "scan" /\ argind < argc /\ Abbreviated(Argv(argind))) =>
        LET r == parse_long_option(ap, FullForm(Argv(argind)), ArgOf(argind),
                                   options, argind)
        IN  /\ ap' = r.ap
            /\ argind' = r.argind

C8_Abbreviation == [](C8_Resolved) /\ [][C8_AsFullName]_vars

\* --ba v resolves to bar with the argument v
C8_Witness ==
    /\ ResolvedLong
    /\ Tok = <<"-", "-", "b", "a">>
    /\ NoError
    /\ RecordsOf(opt) = << Record(9, <<"v">>, <<"-", "-", "b", "a", "r">>) >>
    /\ argind = opt + 2

----------------------------------------------------------------------------
(* C9: a long-option token fails as unrecognized if and only if no named     *)
(* entry has its name slice as a prefix of its name; an empty slice, as in   *)
(* --=value, is a prefix of every name.                                      *)

C9_Unrecognized ==
    ResolvedLong =>
        (ap.error = UnrecognizedOption(Tok) <=> PrefixEntries(Tok) = {})

\* --=f with cfg the only named entry resolves to cfg with the argument f
C9_Witness ==
    /\ ResolvedLong
    /\ Tok = <<"-", "-", "=", "f">>
    /\ SliceOf(Tok) = <<>>
    /\ NoError
    /\ OnlyRecord.option = 3
    /\ OnlyRecord.argument = <<"f">>

----------------------------------------------------------------------------
(* C10: a cluster token made of no-argument option characters followed by an *)
(* argument-taking option character and a non-empty remainder is resolved    *)
(* without error into one record with an empty argument per no-argument      *)
(* character, in order, and one record of the argument-taking option whose   *)
(* argument is the remainder; the cursor then stands on the next token,      *)
(* which is not taken as a value.                                            *)

\* the first table entry with code c, 0 if there is none
EntryOf(c) ==
    LET S == { i \in 1..Len(options) : options[i].code = c }
    IN  IF S = {} THEN 0 ELSE FirstOf(S)

\* position p of token t holds an argument-taking option character, only
\* no-argument option characters precede it and something follows it
AttachedAt(t, p) ==
    /\ p \in 2..(Len(t) - 1)
    /\ \A k \in 2..(p - 1) :
          EntryOf(t[k]) # 0 /\ options[EntryOf(t[k])].has_arg = ap_no
    /\ EntryOf(t[p]) # 0 /\ options[EntryOf(t[p])].has_arg = ap_yes

\* the records the claim expects of token t with the argument-taker at p
ClusterRecords(t, p) ==
    [k \in 1..(p - 1) |->
        Record(EntryOf(t[k + 1]),
               IF k + 1 = p THEN SubSeq(t, p + 1, Len(t)) ELSE <<>>,
               <<"-", t[k + 1]>>)]

C10_AttachedArgument ==
    \A i \in TokenIdx :
        (OptionDone(i) /\ IsClusterToken(Argv(i))) =>
            \A p \in 2..(Len(Argv(i)) - 1) :
                AttachedAt(Argv(i), p) =>
                    /\ (Resolved /\ opt = i) => (NoError /\ argind = i + 1)
                    /\ NoError => RecordsOf(i) = ClusterRecords(Argv(i), p)
                    /\ (i + 1) \in TokenIdx => cls[i + 1] # "value"

\* -abcxa f: the records are (a, ""), (b, ""), (c, "xa") and the operand f
C10_Witness ==
    /\ Done /\ NoError /\ in_order = 1
    /\ argv = <<ProgName, <<"-", "a", "b", "c", "x", "a">>, <<"f">> >>
    /\ Len(ap.data) = 4
    /\ ap.data[1] = Record(1, <<>>, <<"-", "a">>)
    /\ ap.data[2] = Record(2, <<>>, <<"-", "b">>)
    /\ ap.data[3] = Record(3, <<"x", "a">>, <<"-", "c">>)
    /\ ap.data[4].argument = <<"f">>
    /\ cls = <<"option", "operand">>

----------------------------------------------------------------------------
(* Vocabulary of the argument properties *)

\* the entry a long-option token resolves to: the first of its name, else the
\* first abbreviation candidate if the candidates are aliases, else 0
ResolvedEntry(t) ==
    IF ExactEntries(t) # {} THEN FirstOf(ExactEntries(t))
    ELSE IF Abbreviated(t) THEN FirstOf(PrefixEntries(t))
    ELSE 0

\* no token follows the one at i, or the empty string does
NoUsableNext(i) == i + 1 >= argc \/ Argv(i + 1) = <<>>

\* the last character of cluster t is an option of kind h and only
\* no-argument option characters precede it
EndsWith(t, h) ==
    /\ IsClusterToken(t)
    /\ \A k \in 2..(Len(t) - 1) :
          EntryOf(t[k]) # 0 /\ options[EntryOf(t[k])].has_arg = ap_no
    /\ EntryOf(t[Len(t)]) # 0
    /\ options[EntryOf(t[Len(t)])].has_arg = h

\* the long-option token t resolves to an entry of kind h
LongOf(t, h) ==
    /\ IsLongToken(t)
    /\ ResolvedEntry(t) # 0
    /\ options[ResolvedEntry(t)].has_arg = h

----------------------------------------------------------------------------
(* C11: an argument-taking option without a usable value fails as a missing  *)
(* argument.  Long form: --name= with nothing after the "=", --name as the   *)
(* last token, --name followed by the empty token.  Short form: the option   *)
(* character ends its cluster and the token is the last one or is followed   *)
(* by the empty token.  The error names the option, the empty token is not   *)
(* consumed, and the parse ends with no record and the error set.            *)

C11_MissingArgument ==
    \A i \in TokenIdx :
        OptionDone(i) =>
            LET t == Argv(i)
                lacksLong == /\ LongOf(t, ap_yes)
                             /\ IF HasValue(t) THEN ValueOf(t) = <<>> ELSE NoUsableNext(i)
                lacksShort == EndsWith(t, ap_yes) /\ NoUsableNext(i)
            IN  /\ lacksLong =>
                      ap.error = MissingArgumentLong(options[ResolvedEntry(t)].name)
                /\ lacksShort => ap.error = MissingArgumentShort(t[Len(t)])
                /\ (lacksLong \/ lacksShort) =>
                      /\ opt = i
                      /\ pc \in {"finish", "done"}
                      /\ (i + 1) \in TokenIdx => cls[i + 1] = "none"
                      /\ Done => (ret = 1 /\ ap.data_size = 0 /\ ap.data = <<>>)

\* -a --cfg "": the record of -a is discarded when --cfg finds the empty token
C11_Witness ==
    /\ Done
    /\ argv = <<ProgName, <<"-", "a">>, <<"-", "-", "c", "f", "g">>, <<>> >>
    /\ ap.error = MissingArgumentLong(<<"c", "f", "g">>)
    /\ ap.data_size = 0
    /\ cls = <<"option", "option", "none">>

----------------------------------------------------------------------------
(* C12: a long-option token with an "=" that resolves, by its full name or   *)
(* by an abbreviation, to an option taking no argument fails as an           *)
(* unexpected argument naming the option, whether or not anything follows    *)
(* the "="; no record is stored for the token.                               *)

C12_UnexpectedArgument ==
    \A i \in TokenIdx :
        (OptionDone(i) /\ LongOf(Argv(i), ap_no) /\ HasValue(Argv(i))) =>
            /\ ap.error = UnexpectedArgument(options[ResolvedEntry(Argv(i))].name)
            /\ opt = i
            /\ pc \in {"finish", "done"}
            /\ RecordsOf(i) = <<>>
            /\ Done => ap.data_size = 0

\* -n --q=: the abbreviation of qa with an empty text after the "=" fails,
\* the record of -n being still in the store
C12_Witness ==
    /\ pc = "finish"
    /\ argv = <<ProgName, <<"-", "n">>, <<"-", "-", "q", "=">> >>
    /\ in_order = 0
    /\ ap.error = UnexpectedArgument(<<"q", "a">>)
    /\ Len(ap.data) = 1
    /\ ap.data[1].option = 1

----------------------------------------------------------------------------
(* C13: for every descriptor d of the table that takes no argument, the      *)
(* argv whose only token is -c, c the code of d, or --name, the name of d,   *)
(* is parsed without error into exactly one record; its argument is the      *)
(* empty string, its descriptor has the code of d and it is rendered as the  *)
(* token.                                                                    *)

----------------------------------------------------------------------------
(* C14: an argument-taking option written without an attached value (a long  *)
(* option without "=", or an option character that ends its cluster) and     *)
(* followed by a non-empty token takes that token verbatim as its argument,  *)
(* whatever it looks like: the token is not dispatched as an option, gets no *)
(* record of its own, and the cursor moves on by exactly two.                *)

C14_NextTokenIsArgument ==
    \A i \in TokenIdx :
        LET t == Argv(i)
            detached == \/ LongOf(t, ap_yes) /\ ~HasValue(t)
                        \/ EndsWith(t, ap_yes)
            entry == IF IsLongToken(t) THEN ResolvedEntry(t) ELSE EntryOf(t[Len(t)])
        IN  (OptionDone(i) /\ detached /\ ~NoUsableNext(i)) =>
                /\ cls[i + 1] = "value"
                /\ RecordsOf(i + 1) = <<>>
                /\ (Resolved /\ opt = i) => (NoError /\ argind = i + 2)
                /\ (NoError \/ pc = "finish") =>
                      LET recs == RecordsOf(i)
                      IN  /\ recs # <<>>
                          /\ recs[Len(recs)].option = entry
                          /\ recs[Len(recs)].argument = Argv(i + 1)

\* --cfg -- -a: the "--" is the argument of cfg and -a is still an option
C14_Witness ==
    /\ Done /\ NoError
    /\ argv = <<ProgName, <<"-", "-", "c", "f", "g">>, <<"-", "-">>, <<"-", "a">> >>
    /\ cls = <<"option", "value", "option">>
    /\ Len(ap.data) = 2
    /\ ap.data[1].option = 3
    /\ ap.data[1].argument = <<"-", "-">>
    /\ ap.data[2].option = 1

----------------------------------------------------------------------------
(* C17: in a cluster, the first character reached as an option character     *)
(* that is the code of no table entry fails the parse as an invalid option   *)
(* naming that character: the characters before it have been decoded, none   *)
(* after it is looked up, and the following token is not consumed.  The      *)
(* characters of an attached argument are never looked up: a cluster fails   *)
(* as invalid only through a character reached as an option character.       *)

\* position p of cluster t is reached as an option character (only
\* no-argument option characters precede it) and matches no code
InvalidAt(t, p) ==
    /\ p \in 2..Len(t)
    /\ \A k \in 2..(p - 1) :
          EntryOf(t[k]) # 0 /\ options[EntryOf(t[k])].has_arg = ap_no
    /\ EntryOf(t[p]) = 0

C17_InvalidShortOption ==
    \A i \in TokenIdx :
        (OptionDone(i) /\ IsClusterToken(Argv(i))) =>
            LET t == Argv(i)
            IN  /\ \A p \in 2..Len(t) :
                      InvalidAt(t, p) =>
                          /\ ap.error = InvalidShortOption(t[p])
                          /\ opt = i
                          /\ argind = i
                          /\ pc \in {"finish", "done"}
                          /\ (i + 1) \in TokenIdx => cls[i + 1] = "none"
                          /\ pc = "finish" =>
                                /\ Len(RecordsOf(i)) = p - 2
                                /\ \A k \in 1..(p - 2) :
                                      RecordsOf(i)[k] =
                                          Record(EntryOf(t[k + 1]), <<>>, <<"-", t[k + 1]>>)
                /\ (opt = i /\ ap.error \in { InvalidShortOption(t[k]) : k \in 2..Len(t) }) =>
                      \E p \in 2..Len(t) : InvalidAt(t, p)

\* -ax f: a has been decoded, x is invalid, f is never looked at
C17_Witness ==
    /\ pc = "finish"
    /\ argv = <<ProgName, <<"-", "a", "x">>, <<"f">> >>
    /\ ap.error = InvalidShortOption("x")
    /\ ap.data = << Record(1, <<>>, <<"-", "a">>) >>
    /\ argind = 1
    /\ cls = <<"option", "none">>

----------------------------------------------------------------------------
(* C18 as stated: after a successful parse ap_opt_string returns, for every  *)
(* option record, the option as it was spelled on the command line: "--"     *)
(* and the name that was typed for a long option, "-" and the character for  *)
(* a short one.                                                              *)

\* the text typed for the k-th record of the option token t
Typed(t, k) ==
    IF IsLongToken(t) THEN <<"-", "-">> \o SliceOf(t) ELSE <<"-", t[k + 1]>>

\* the place of store index j among the records of its token
PlaceOf(j) == Cardinality({ k \in 1..j : origin[k] = origin[j] })

C18_AsTyped ==
    (Done /\ NoError) =>
        \A j \in 1..ap.data_size :
            ~IsOperandRecord(ap.data[j]) =>
                ap_opt_string(ap, j - 1) = Typed(Argv(origin[j]), PlaceOf(j))

(* C18 amended: after a successful parse ap_opt_string returns, for every    *)
(* option record, the option in the form it was used in: "--" and the full   *)
(* name of the matched descriptor for a long option, also when the command   *)
(* line has an abbreviation of the name or an "=value" after it, and "-" and *)
(* the character typed, which is the descriptor's code, for a short one.     *)
(* Outside the store the result is the empty string.                         *)

C18_RenderedForm ==
    (Done /\ NoError) =>
        /\ \A j \in 1..ap.data_size :
              ~IsOperandRecord(ap.data[j]) =>
                  LET t == Argv(origin[j])
                      d == options[ap.data[j].option]
                  IN  /\ IsLongToken(t) =>
                            /\ ap_opt_string(ap, j - 1) = <<"-", "-">> \o d.name
                            /\ ap.data[j].option = ResolvedEntry(t)
                      /\ IsClusterToken(t) =>
                            /\ ap_opt_string(ap, j - 1) = <<"-", t[PlaceOf(j) + 1]>>
                            /\ d.code = t[PlaceOf(j) + 1]
        /\ ap_opt_string(ap, -1) = <<>>
        /\ ap_opt_string(ap, ap.data_size) = <<>>

\* --ba v -n: the abbreviation is rendered as --bar, the flag as -n
C18_Witness ==
    /\ Done /\ NoError
    /\ argv = <<ProgName, <<"-", "-", "b", "a">>, <<"v">>, <<"-", "n">> >>
    /\ ap.data_size = 2
    /\ ap_opt_string(ap, 0) = <<"-", "-", "b", "a", "r">>
    /\ ap_opt_string(ap, 1) = <<"-", "n">>

----------------------------------------------------------------------------
(* C20: the parse terminates.  The cursor argind starts at 1 and never       *)
(* exceeds argc; every iteration of the Driver's loop that sets no error     *)
(* moves it on by one or by two; inside a cluster the character cursor cind  *)
(* stays within the token and grows with every pass that does not end the    *)
(* cluster, the token cursor standing still meanwhile.  Hence ap_init        *)
(* returns.                                                                  *)

C20_Bounds ==
    /\ 1 <= argind /\ argind <= argc
    /\ pc = "entry" => argind = 1
    /\ pc = "short" =>
          /\ argind = opt
          /\ 1 <= cind /\ cind < Len(Argv(opt))

C20_Step ==
    /\ (pc = "scan" /\ pc' = "short") => (argind' = argind /\ cind' = 1)
    /\ (pc = "scan" /\ argind < argc /\ pc' # "short" /\ ap'.error = NULL) =>
          argind' \in {argind + 1, argind + 2}
    /\ (pc = "short" /\ pc' = "short") => (cind' > cind /\ argind' = argind)
    /\ (pc = "short" /\ pc' # "short" /\ ap'.error = NULL) =>
          argind' \in {argind + 1, argind + 2}

\* the scheduling of a sequential program: a step that can be taken is taken
SpecFair == Spec /\ WF_vars(Next)

C20_Termination == [](C20_Bounds) /\ [][C20_Step]_vars /\ <>Done

\* -ab -c f: after two passes over the first cluster and a step of two over
\* -c and its value, the parse has ended with the cursor at argc
C20_Witness ==
    /\ Done /\ NoError
    /\ argv = <<ProgName, <<"-", "a", "b">>, <<"-", "c">>, <<"f">> >>
    /\ cls = <<"option", "option", "value">>
    /\ argind = argc
    /\ Len(ap.data) = 3

----------------------------------------------------------------------------
(* C16: ap_free is idempotent.  The first release after ap_init has returned *)
(* frees every block the instance owns, each exactly once, and leaves no     *)
(* record, no error and both counts at 0; a release of a released instance   *)
(* frees nothing and leaves the instance and the heap as they are.           *)

C16_Released ==
    pc = "released" =>
        /\ ap = [data |-> <<>>, data_size |-> 0, error |-> NULL, error_size |-> 0]
        /\ heap.live = {}
        /\ ~heap.fault

C16_Step ==
    /\ (pc = "done" /\ pc' = "released") =>
          /\ heap'.freed = heap.freed \cup heap.live
          /\ heap.freed \cap heap.live = {}
          /\ ~heap'.fault
    /\ pc = "released" => (ap' = ap /\ heap' = heap /\ pc' = pc)

C16_Idempotent == [](C16_Released) /\ [][C16_Step]_vars

\* -a f parsed in place and released: the table and the two strings of each
\* of the two records have been freed
C16_Witness ==
    /\ pc = "released"
    /\ argv = <<ProgName, <<"-", "a">>, <<"f">> >>
    /\ in_order = 1
    /\ heap.freed = { Block("data", 0),
                      Block("argument", 1), Block("opt_string", 1),
                      Block("argument", 2), Block("opt_string", 2) }
    /\ ap.data_size = 0

----------------------------------------------------------------------------
(* C15 as stated: a call of ap_is_used after ap_init has returned yields     *)
(* true if and only if the store has at least one record and the descriptor  *)
(* of some record has the code asked for, the descriptor of an operand       *)
(* record having the code 0; so it yields false after a failed parse, after  *)
(* a release, and when no record matches.                                    *)

C15_Asked ==
    used' # used =>
        (used'.ret <=>
            /\ ap.data_size > 0
            /\ \E k \in 1..ap.data_size : Deref(ap.data[k].option).code = used'.code)

C15_IsCodeUsed == [][C15_Asked]_vars

----------------------------------------------------------------------------
(* C19 as stated: when an allocation fails during ap_init (the growth of the *)
(* record table, the copy of a record's argument, the formatting by          *)
(* asprintf, the growth of the buffer of skipped non-options), ap_init       *)
(* returns 0 and the instance can be released safely: the records counted by *)
(* data_size have an allocated argument and an allocated rendered form, and  *)
(* ap_free frees every block the instance owns exactly once and hands no     *)
(* pointer to free that was never set.                                       *)

C19_AllocFailure ==
    /\ (Returned /\ fail # "none") => ret = 0
    /\ \A k \in 1..ap.data_size :
          /\ ap.data[k].argument # NULL
          /\ ap.data[k].opt_string \notin {NULL, UNINIT}
    /\ ~heap.fault
    /\ pc = "released" => heap.live \subseteq {Block("non_options", 0)}

----------------------------------------------------------------------------
(* C21: token conservation.  In a parse that ends without error every token  *)
(* after the program name is accounted for exactly once: as an option token  *)
(* (a dash and a second character; one option record or more), as the value  *)
(* taken by the argument-taking option just before it (no record of its      *)
(* own), as the "--" that ended the scan (no record, at most one), or as an  *)
(* operand (exactly one operand record with the token text).  The operands   *)
(* are the scanned tokens that do not read as options and all tokens after   *)
(* the terminator; every record comes from exactly one token, so the number  *)
(* of operand records is the number of operand tokens, in both reorder modes.*)

\* how the parse has accounted for the token at i
ClassOf(i) == IF AfterTerminator(i) THEN "operand" ELSE cls[i]

C21_Conservation ==
    (Done /\ NoError /\ options # NULL) =>
        /\ Len(origin) = Len(ap.data)
        /\ ap.data_size = Len(ap.data)
        /\ \A k \in 1..Len(origin) : origin[k] \in TokenIdx
        /\ Cardinality({ i \in TokenIdx : cls[i] = "terminator" }) <= 1
        /\ \A i \in TokenIdx :
              LET recs == RecordsOf(i)
              IN  /\ ClassOf(i) \in {"option", "value", "terminator", "operand"}
                  /\ ClassOf(i) = "option" =>
                        /\ LooksLikeOption(i)
                        /\ Argv(i) # <<"-", "-">>
                        /\ recs # <<>>
                        /\ \A j \in 1..Len(recs) : ~IsOperandRecord(recs[j])
                  /\ ClassOf(i) = "value" =>
                        /\ recs = <<>>
                        /\ i > 1
                        /\ cls[i - 1] = "option"
                        /\ LET prev == RecordsOf(i - 1)
                           IN  /\ options[prev[Len(prev)].option].has_arg = ap_yes
                               /\ prev[Len(prev)].argument = Argv(i)
                  /\ ClassOf(i) = "terminator" =>
                        /\ recs = <<>>
                        /\ Argv(i) = <<"-", "-">>
                  /\ ClassOf(i) = "operand" =>
                        /\ Len(recs) = 1
                        /\ IsOperandRecord(recs[1])
                        /\ recs[1].argument = Argv(i)
                        /\ ~AfterTerminator(i) => ~LooksLikeOption(i)
        /\ Cardinality({ j \in 1..Len(ap.data) : IsOperandRecord(ap.data[j]) })
              = Cardinality({ i \in TokenIdx : ClassOf(i) = "operand" })

\* -c -a f with reordering: an option, its value and an operand; two records
C21_Witness ==
    /\ Done /\ NoError /\ in_order = 0
    /\ argv = <<ProgName, <<"-", "c">>, <<"-", "a">>, <<"f">> >>
    /\ cls = <<"option", "value", "operand">>
    /\ origin = <<1, 3>>
    /\ ap.data[1].argument = <<"-", "a">>
    /\ ap.data[2] = Record(NonOption, <<"f">>, <<"-">>)

====
